---- MODULE Spec2Model ----
(***************************************************************************)
(* A model of sampled.c: a daemon that detaches from its terminal and      *)
(* writes the system time to syslog once per LOG_INTERVAL until SIGTERM.   *)
(*                                                                         *)
(* One action per statement of main(), _log_time() and _signal_handler().  *)
(* After fork() the program runs as two processes, "parent" and "child",   *)
(* each with its own copy of the program state; the syslog stream `log`    *)
(* and the wall clock `now` are shared.  System calls whose outcome the    *)
(* program cannot control (fork, setsid, chdir) return any value their     *)
(* interface allows.                                                       *)
(***************************************************************************)
EXTENDS Integers, Sequences, FiniteSets

(* ----------------------------- bounds ---------------------------------- *)
\* longest argv[0] explored
MaxArgLen == 2
\* last instant of the wall clock explored
MaxTime == 2
\* number of signals the environment sends
MaxSignals == 2

(* ------------------------ program constants ---------------------------- *)
OK == 0
ERR_FORK == 3
ERR_SETSID == 4
ERR_CHDIR == 5
ERR_WTF == 187
LOG_INTERVAL == 1

SIGHUP == 1
SIGTERM == 15
\* a signal number that is neither SIGHUP nor SIGTERM
SIGUSR1 == 10
Signals == {SIGHUP, SIGTERM, SIGUSR1}

STDIN_FILENO == 0
STDOUT_FILENO == 1
STDERR_FILENO == 2
StdFds == {STDIN_FILENO, STDOUT_FILENO, STDERR_FILENO}

\* S_IRUSR | S_IWUSR | S_IRGRP | S_IROTH, as the set of its bits
UmaskArg == {"S_IRUSR", "S_IWUSR", "S_IRGRP", "S_IROTH"}

Procs == {"parent", "child"}
\* characters of argv[0]; "/" is the path separator
Alphabet == {"/", "a"}
\* the null pointer, as an index into argv[0] (valid indices are 1..Len+1)
NULL == 0
\* status of a process that has not exited
NoStatus == 0 - 1

VARIABLES
    argv0,      \* argv[0], a sequence of characters (the terminating NUL implied)
    app_name,   \* per process: static char *app_name, an index into argv0 or NULL
    ident,      \* per process: index of the tag given to openlog, NULL before
    logOpen,    \* per process: the syslog channel is open
    pc,         \* per process: the statement it is at
    status,     \* per process: exit status, NoStatus while running
    pid,        \* per process: the local variable pid of main
    ctty,       \* per process: it has a controlling terminal
    sidret,     \* per process: what its setsid() returned, 0 before the call
    dirret,     \* per process: what its chdir() returned, 0 before the call
    fds,        \* per process: the standard descriptors still open
    mask,       \* per process: the file creation mask
    cwd,        \* per process: working directory
    handlers,   \* per process: signals whose disposition is _signal_handler
    hsig,       \* per process: the argument of the running _signal_handler, 0 if none
    ret,        \* per process: the statement the running handler interrupted
    wake,       \* per process: the instant the current sleep() ends
    log,        \* the syslog stream: records in order of emission
    now,        \* the wall clock, in seconds
    sent        \* signals sent so far

vars == <<argv0, app_name, ident, logOpen, pc, status, pid, ctty, sidret, dirret,
          fds, mask, cwd, handlers, hsig, ret, wake, log, now, sent>>

(* --------------------------- pure helpers ------------------------------ *)

\* all sequences over S of length at most n
RECURSIVE SeqsUpTo(_, _)
SeqsUpTo(S, n) ==
    IF n = 0 THEN {<<>>}
    ELSE LET shorter == SeqsUpTo(S, n - 1)
         IN  shorter \cup {Append(s, c) : s \in {t \in shorter : Len(t) = n - 1}, c \in S}

\* the first occurrence of c in s, scanning forwards from index i; NULL if none
RECURSIVE StrchrFrom(_, _, _)
StrchrFrom(s, c, i) ==
    IF i > Len(s) THEN NULL
    ELSE IF s[i] = c THEN i
    ELSE StrchrFrom(s, c, i + 1)

\* strrchr(s, c) scanning backwards from index i: the last occurrence of c, or NULL
RECURSIVE StrrchrFrom(_, _, _)
StrrchrFrom(s, c, i) ==
    IF i = 0 THEN NULL
    ELSE IF s[i] = c THEN i
    ELSE StrrchrFrom(s, c, i - 1)

Strchr(s, c) == StrchrFrom(s, c, 1)

Strrchr(s, c) == StrrchrFrom(s, c, Len(s))

\* the C string a pointer into argv[0] denotes: from index i to the terminator
CStr(s, i) == SubSeq(s, i, Len(s))

\* lines 105-111: app_name after the initial if/else
AppName(s) ==
    LET p == Strrchr(s, "/")
    IN  IF p # NULL THEN p + 1 ELSE 1

(* ------------------------------ branches ------------------------------- *)

ForkFailedSlip(r) == r < -1

\* line 122: if ( pid < 0 )
ForkFailed(r) == r < 0

SetsidFailedNegative(r) == r < 0

\* line 129: if (setsid() < -1)
SetsidFailed(r) == r < -1

IsParentNever(r) == FALSE

\* line 136: if ( pid > 0 )
IsParent(r) == r > 0

ChdirFailedNever(r) == FALSE

\* line 152: if ( chdir("/") )
ChdirFailed(r) == r # 0

\* line 87: the controlling expression of while (1)
LoopCond == 1

LoopWhileFewRecords == Len(log) < 3

\* line 87: the loop goes on while its controlling expression is not 0
LoopContinues == LoopCond # 0

SignalCaseNoDefault(sig) ==
    IF sig = SIGHUP THEN "hup" ELSE "term"

SignalCaseNoTerm(sig) ==
    IF sig = SIGHUP THEN "hup" ELSE "default"

\* lines 73-83: the switch of _signal_handler
SignalCase(sig) ==
    IF sig = SIGHUP THEN "hup"
    ELSE IF sig = SIGTERM THEN "term"
    ELSE "default"

InstallNothing(installed, sig) == installed

\* lines 159, 160: signal(sig, _signal_handler)
InstallHandler(installed, sig) == installed \cup {sig}

CloselogNoop(open) == open

\* line 78: closelog()
Closelog(open) == FALSE

\* values the system calls may return
ForkResults == {-1, 1}
SetsidResults == {-1, 1}
ChdirResults == {-1, 0}

(* ------------------------------ records -------------------------------- *)

\* one syslog record: who wrote it, its priority, the tag of its channel, which
\* message, and the value of time() it renders (timestamp records only, else 0)
Rec(p, pri, msg, t) ==
    [proc |-> p, pri |-> pri, tag |-> CStr(argv0, ident[p]), msg |-> msg, at |-> t]

Running(p) == pc[p] \notin {"none", "exited", "killed"}
InHandler(p) == pc[p] \in {"handler", "h_closelog", "h_exit", "h_return"}
LoopPcs == {"loop", "log_time", "sleep", "sleeping"}

Exit(p, code) ==
    /\ pc' = [pc EXCEPT ![p] = "exited"]
    /\ status' = [status EXCEPT ![p] = code]

(* ------------------------------- Init ---------------------------------- *)

Init ==
    /\ argv0 \in SeqsUpTo(Alphabet, MaxArgLen)
    /\ app_name = [p \in Procs |-> NULL]
    /\ ident = [p \in Procs |-> NULL]
    /\ logOpen = [p \in Procs |-> FALSE]
    /\ pc = [p \in Procs |-> IF p = "parent" THEN "start" ELSE "none"]
    /\ status = [p \in Procs |-> NoStatus]
    /\ pid = [p \in Procs |-> 0]
    /\ ctty = [p \in Procs |-> p = "parent"]
    /\ sidret = [p \in Procs |-> 0]
    /\ dirret = [p \in Procs |-> 0]
    /\ fds = [p \in Procs |-> IF p = "parent" THEN StdFds ELSE {}]
    /\ mask = [p \in Procs |-> {}]
    /\ cwd = [p \in Procs |-> "invocation"]
    /\ handlers = [p \in Procs |-> {}]
    /\ hsig = [p \in Procs |-> 0]
    /\ ret = [p \in Procs |-> "none"]
    /\ wake = [p \in Procs |-> 0]
    /\ log = <<>>
    /\ now = 0
    /\ sent = 0

(* ------------------------------- main ---------------------------------- *)

\* lines 105-111
DeriveName(p) ==
    /\ pc[p] = "start"
    /\ app_name' = [app_name EXCEPT ![p] = AppName(argv0)]
    /\ pc' = [pc EXCEPT ![p] = "openlog"]
    /\ UNCHANGED <<argv0, ident, logOpen, status, pid, ctty, sidret, dirret, fds, mask,
                   cwd, handlers, hsig, ret, wake, log, now, sent>>

\* line 113
Openlog(p) ==
    /\ pc[p] = "openlog"
    /\ ident' = [ident EXCEPT ![p] = app_name[p]]
    /\ logOpen' = [logOpen EXCEPT ![p] = TRUE]
    /\ pc' = [pc EXCEPT ![p] = "syslog_start"]
    /\ UNCHANGED <<argv0, app_name, status, pid, ctty, sidret, dirret, fds, mask, cwd,
                   handlers, hsig, ret, wake, log, now, sent>>

\* line 114
SyslogStart(p) ==
    /\ pc[p] = "syslog_start"
    /\ log' = Append(log, Rec(p, "LOG_INFO", "Starting", 0))
    /\ pc' = [pc EXCEPT ![p] = "fork"]
    /\ UNCHANGED <<argv0, app_name, ident, logOpen, status, pid, ctty, sidret, dirret,
                   fds, mask, cwd, handlers, hsig, ret, wake, now, sent>>

\* line 118: on success the child is a copy of the caller in which fork returned 0
Fork(p) ==
    /\ pc[p] = "fork"
    /\ p = "parent"
    /\ \E r \in ForkResults :
        IF r > 0
        THEN /\ pid' = [pid EXCEPT ![p] = r, !["child"] = 0]
             /\ pc' = [pc EXCEPT ![p] = "chk_fork", !["child"] = "chk_fork"]
             /\ app_name' = [app_name EXCEPT !["child"] = app_name[p]]
             /\ ident' = [ident EXCEPT !["child"] = ident[p]]
             /\ logOpen' = [logOpen EXCEPT !["child"] = logOpen[p]]
             /\ ctty' = [ctty EXCEPT !["child"] = ctty[p]]
             /\ fds' = [fds EXCEPT !["child"] = fds[p]]
             /\ mask' = [mask EXCEPT !["child"] = mask[p]]
             /\ cwd' = [cwd EXCEPT !["child"] = cwd[p]]
             /\ handlers' = [handlers EXCEPT !["child"] = handlers[p]]
        ELSE /\ pid' = [pid EXCEPT ![p] = r]
             /\ pc' = [pc EXCEPT ![p] = "chk_fork"]
             /\ UNCHANGED <<app_name, ident, logOpen, ctty, fds, mask, cwd, handlers>>
    /\ UNCHANGED <<argv0, status, sidret, dirret, hsig, ret, wake, log, now, sent>>

\* lines 122-125
CheckFork(p) ==
    /\ pc[p] = "chk_fork"
    /\ IF ForkFailed(pid[p])
       THEN /\ log' = Append(log, Rec(p, "LOG_ERR", "error", 0))
            /\ Exit(p, ERR_FORK)
       ELSE /\ pc' = [pc EXCEPT ![p] = "setsid"]
            /\ UNCHANGED <<log, status>>
    /\ UNCHANGED <<argv0, app_name, ident, logOpen, pid, ctty, sidret, dirret, fds, mask,
                   cwd, handlers, hsig, ret, wake, now, sent>>

\* lines 129-132: the call and the test of its result
Setsid(p) ==
    /\ pc[p] = "setsid"
    /\ \E r \in SetsidResults :
        /\ sidret' = [sidret EXCEPT ![p] = r]
        /\ ctty' = [ctty EXCEPT ![p] = IF r >= 0 THEN FALSE ELSE @]
        /\ IF SetsidFailed(r)
           THEN /\ log' = Append(log, Rec(p, "LOG_ERR", "error", 0))
                /\ Exit(p, ERR_SETSID)
           ELSE /\ pc' = [pc EXCEPT ![p] = "chk_parent"]
                /\ UNCHANGED <<log, status>>
    /\ UNCHANGED <<argv0, app_name, ident, logOpen, pid, dirret, fds, mask, cwd,
                   handlers, hsig, ret, wake, now, sent>>

\* lines 136-138
CheckParent(p) ==
    /\ pc[p] = "chk_parent"
    /\ IF IsParent(pid[p])
       THEN Exit(p, OK)
       ELSE /\ pc' = [pc EXCEPT ![p] = "close"]
            /\ UNCHANGED status
    /\ UNCHANGED <<argv0, app_name, ident, logOpen, pid, ctty, sidret, dirret, fds, mask,
                   cwd, handlers, hsig, ret, wake, log, now, sent>>

\* lines 142-144: the results of close() are not looked at
CloseStd(p) ==
    /\ pc[p] = "close"
    /\ fds' = [fds EXCEPT ![p] = ((@ \ {STDIN_FILENO}) \ {STDOUT_FILENO}) \ {STDERR_FILENO}]
    /\ pc' = [pc EXCEPT ![p] = "umask"]
    /\ UNCHANGED <<argv0, app_name, ident, logOpen, status, pid, ctty, sidret, dirret,
                   mask, cwd, handlers, hsig, ret, wake, log, now, sent>>

\* line 148
Umask(p) ==
    /\ pc[p] = "umask"
    /\ mask' = [mask EXCEPT ![p] = UmaskArg]
    /\ pc' = [pc EXCEPT ![p] = "chdir"]
    /\ UNCHANGED <<argv0, app_name, ident, logOpen, status, pid, ctty, sidret, dirret,
                   fds, cwd, handlers, hsig, ret, wake, log, now, sent>>

\* lines 152-155
Chdir(p) ==
    /\ pc[p] = "chdir"
    /\ \E r \in ChdirResults :
        /\ dirret' = [dirret EXCEPT ![p] = r]
        /\ cwd' = [cwd EXCEPT ![p] = IF r = 0 THEN "/" ELSE @]
        /\ IF ChdirFailed(r)
           THEN /\ log' = Append(log, Rec(p, "LOG_ERR", "error", 0))
                /\ Exit(p, ERR_CHDIR)
           ELSE /\ pc' = [pc EXCEPT ![p] = "signal_hup"]
                /\ UNCHANGED <<log, status>>
    /\ UNCHANGED <<argv0, app_name, ident, logOpen, pid, ctty, sidret, fds, mask,
                   handlers, hsig, ret, wake, now, sent>>

\* line 159
SignalHup(p) ==
    /\ pc[p] = "signal_hup"
    /\ handlers' = [handlers EXCEPT ![p] = InstallHandler(@, SIGHUP)]
    /\ pc' = [pc EXCEPT ![p] = "signal_term"]
    /\ UNCHANGED <<argv0, app_name, ident, logOpen, status, pid, ctty, sidret, dirret,
                   fds, mask, cwd, hsig, ret, wake, log, now, sent>>

\* line 160; line 164 calls _log_time
SignalTerm(p) ==
    /\ pc[p] = "signal_term"
    /\ handlers' = [handlers EXCEPT ![p] = InstallHandler(@, SIGTERM)]
    /\ pc' = [pc EXCEPT ![p] = "loop"]
    /\ UNCHANGED <<argv0, app_name, ident, logOpen, status, pid, ctty, sidret, dirret,
                   fds, mask, cwd, hsig, ret, wake, log, now, sent>>

(* ----------------------------- _log_time ------------------------------- *)

\* line 87: the loop test; were it false, _log_time returns and main returns
\* ERR_WTF (line 168)
Loop(p) ==
    /\ pc[p] = "loop"
    /\ IF LoopContinues
       THEN /\ pc' = [pc EXCEPT ![p] = "log_time"]
            /\ UNCHANGED status
       ELSE Exit(p, ERR_WTF)
    /\ UNCHANGED <<argv0, app_name, ident, logOpen, pid, ctty, sidret, dirret, fds, mask,
                   cwd, handlers, hsig, ret, wake, log, now, sent>>

\* lines 91-94: read the clock and log its rendering
LogTime(p) ==
    /\ pc[p] = "log_time"
    /\ log' = Append(log, Rec(p, "LOG_INFO", "time", now))
    /\ pc' = [pc EXCEPT ![p] = "sleep"]
    /\ UNCHANGED <<argv0, app_name, ident, logOpen, status, pid, ctty, sidret, dirret,
                   fds, mask, cwd, handlers, hsig, ret, wake, now, sent>>

\* line 95: sleep(LOG_INTERVAL) is entered
Sleep(p) ==
    /\ pc[p] = "sleep"
    /\ wake' = [wake EXCEPT ![p] = now + LOG_INTERVAL]
    /\ pc' = [pc EXCEPT ![p] = "sleeping"]
    /\ UNCHANGED <<argv0, app_name, ident, logOpen, status, pid, ctty, sidret, dirret,
                   fds, mask, cwd, handlers, hsig, ret, log, now, sent>>

\* line 95: sleep returns 0 once the interval has elapsed
SleepReturn(p) ==
    /\ pc[p] = "sleeping"
    /\ now >= wake[p]
    /\ pc' = [pc EXCEPT ![p] = "loop"]
    /\ UNCHANGED <<argv0, app_name, ident, logOpen, status, pid, ctty, sidret, dirret,
                   fds, mask, cwd, handlers, hsig, ret, wake, log, now, sent>>

(* ------------------------------ signals -------------------------------- *)

\* The environment delivers SIGHUP or SIGTERM to a running process.  With
\* _signal_handler installed for it the handler is entered; otherwise the
\* default disposition of both signals ends the process.  A signal arriving while
\* the handler runs is taken up when it has returned.
\* signal() leaves the handler installed after a delivery (the C library's BSD
\* semantics), and a handler entered during sleep() makes sleep() return early.
Deliver(p, sig) ==
    /\ Running(p)
    /\ ~InHandler(p)
    /\ sent < MaxSignals
    /\ sent' = sent + 1
    /\ IF sig \in handlers[p]
       THEN /\ hsig' = [hsig EXCEPT ![p] = sig]
            /\ ret' = [ret EXCEPT ![p] = pc[p]]
            /\ pc' = [pc EXCEPT ![p] = "handler"]
       ELSE /\ pc' = [pc EXCEPT ![p] = "killed"]
            /\ UNCHANGED <<hsig, ret>>
    /\ UNCHANGED <<argv0, app_name, ident, logOpen, status, pid, ctty, sidret, dirret,
                   fds, mask, cwd, handlers, wake, log, now>>

\* lines 73-77, 82: the switch, and the syslog call of the branch taken
Handler(p) ==
    /\ pc[p] = "handler"
    /\ LET branch == SignalCase(hsig[p])
       IN  /\ log' = IF branch = "term" THEN Append(log, Rec(p, "LOG_INFO", "sigterm", 0))
                     ELSE IF branch = "default" THEN Append(log, Rec(p, "LOG_INFO", "unhandled", 0))
                     ELSE log
           /\ pc' = [pc EXCEPT ![p] = IF branch = "term" THEN "h_closelog" ELSE "h_return"]
    /\ UNCHANGED <<argv0, app_name, ident, logOpen, status, pid, ctty, sidret, dirret,
                   fds, mask, cwd, handlers, hsig, ret, wake, now, sent>>

\* line 78
HandlerCloselog(p) ==
    /\ pc[p] = "h_closelog"
    /\ logOpen' = [logOpen EXCEPT ![p] = Closelog(@)]
    /\ pc' = [pc EXCEPT ![p] = "h_exit"]
    /\ UNCHANGED <<argv0, app_name, ident, status, pid, ctty, sidret, dirret, fds, mask,
                   cwd, handlers, hsig, ret, wake, log, now, sent>>

\* line 79
HandlerExit(p) ==
    /\ pc[p] = "h_exit"
    /\ Exit(p, OK)
    /\ UNCHANGED <<argv0, app_name, ident, logOpen, pid, ctty, sidret, dirret, fds, mask,
                   cwd, handlers, hsig, ret, wake, log, now, sent>>

\* line 84: the handler returns to the interrupted statement; an interrupted
\* sleep() does not resume but returns the time left, which line 95 discards
HandlerReturn(p) ==
    /\ pc[p] = "h_return"
    /\ pc' = [pc EXCEPT ![p] = IF ret[p] = "sleeping" THEN "loop" ELSE ret[p]]
    /\ hsig' = [hsig EXCEPT ![p] = 0]
    /\ ret' = [ret EXCEPT ![p] = "none"]
    /\ UNCHANGED <<argv0, app_name, ident, logOpen, status, pid, ctty, sidret, dirret,
                   fds, mask, cwd, handlers, wake, log, now, sent>>

\* the wall clock advances
Tick ==
    /\ now < MaxTime
    /\ now' = now + 1
    /\ UNCHANGED <<argv0, app_name, ident, logOpen, pc, status, pid, ctty, sidret, dirret,
                   fds, mask, cwd, handlers, hsig, ret, wake, log, sent>>

(* --------------------------- specification ----------------------------- *)

\* the signals the environment sends
EnvSignals == {SIGHUP, SIGTERM}

MainStep(p) ==
    \/ DeriveName(p)
    \/ Openlog(p)
    \/ SyslogStart(p)
    \/ Fork(p)
    \/ CheckFork(p)
    \/ Setsid(p)
    \/ CheckParent(p)
    \/ CloseStd(p)
    \/ Umask(p)
    \/ Chdir(p)
    \/ SignalHup(p)
    \/ SignalTerm(p)

LoopStep(p) ==
    \/ Loop(p)
    \/ LogTime(p)
    \/ Sleep(p)
    \/ SleepReturn(p)

HandlerStep(p) ==
    \/ Handler(p)
    \/ HandlerCloselog(p)
    \/ HandlerExit(p)
    \/ HandlerReturn(p)

ProcStep(p) == MainStep(p) \/ LoopStep(p) \/ HandlerStep(p)

Next ==
    \/ \E p \in Procs : ProcStep(p)
    \/ \E p \in Procs, sig \in EnvSignals : Deliver(p, sig)
    \/ Tick

Spec == Init /\ [][Next]_vars

\* the program started under the name "/a"
InitNamed == Init /\ argv0 = <<"/", "a">>

\* the scheduler lets every process that can take a step take one; the name the
\* program is started under plays no part in what is checked of these runs
FairSpec == InitNamed /\ [][Next]_vars /\ \A p \in Procs : WF_vars(ProcStep(p))

(* ------------------------- the endless run ----------------------------- *)

\* To follow the loop round without end in a finite state space, the runs of
\* LiveSpec are seen through a window: the log keeps its newest LogWindow
\* records, and the clock is read modulo MaxTime + 1, sleep deadlines being
\* carried over to the new period when it wraps.
LogWindow == 3

Window(l) == IF Len(l) > LogWindow THEN SubSeq(l, Len(l) - LogWindow + 1, Len(l)) ELSE l

\* lines 91-94, the log seen through the window
LogTimeWindowed(p) ==
    /\ pc[p] = "log_time"
    /\ log' = Window(Append(log, Rec(p, "LOG_INFO", "time", now)))
    /\ pc' = [pc EXCEPT ![p] = "sleep"]
    /\ UNCHANGED <<argv0, app_name, ident, logOpen, status, pid, ctty, sidret, dirret,
                   fds, mask, cwd, handlers, hsig, ret, wake, now, sent>>

\* the wall clock advances, read modulo MaxTime + 1
TickCyclic ==
    /\ IF now < MaxTime
       THEN /\ now' = now + 1
            /\ UNCHANGED wake
       ELSE /\ now' = 0
            /\ wake' = [p \in Procs |->
                            IF wake[p] > MaxTime THEN wake[p] - (MaxTime + 1) ELSE 0]
    /\ UNCHANGED <<argv0, app_name, ident, logOpen, pc, status, pid, ctty, sidret, dirret,
                   fds, mask, cwd, handlers, hsig, ret, log, sent>>

\* the state main leaves behind when every step of it has succeeded: the parent
\* has returned OK at line 137 and the child stands at the loop test
Daemonized ==
    /\ app_name = [p \in Procs |-> AppName(argv0)]
    /\ ident = app_name
    /\ logOpen = [p \in Procs |-> TRUE]
    /\ pc = [p \in Procs |-> IF p = "parent" THEN "exited" ELSE "loop"]
    /\ status = [p \in Procs |-> IF p = "parent" THEN OK ELSE NoStatus]
    /\ pid = [p \in Procs |-> IF p = "parent" THEN 1 ELSE 0]
    /\ sidret \in [Procs -> SetsidResults]
    /\ sidret["child"] > 0
    /\ ctty = [p \in Procs |-> sidret[p] < 0]
    /\ dirret = [p \in Procs |-> 0]
    /\ fds = [p \in Procs |-> IF p = "parent" THEN StdFds ELSE {}]
    /\ mask = [p \in Procs |-> IF p = "parent" THEN {} ELSE UmaskArg]
    /\ cwd = [p \in Procs |-> IF p = "parent" THEN "invocation" ELSE "/"]
    /\ handlers = [p \in Procs |-> IF p = "parent" THEN {} ELSE {SIGHUP, SIGTERM}]
    /\ hsig = [p \in Procs |-> 0]
    /\ ret = [p \in Procs |-> "none"]
    /\ wake = [p \in Procs |-> 0]
    /\ log = <<Rec("parent", "LOG_INFO", "Starting", 0)>>
    /\ sent = 0

\* the endless run starts when daemonization has succeeded, at any time of day
InitDaemonized ==
    /\ argv0 = <<"/", "a">>
    /\ now \in 0..MaxTime
    /\ Daemonized

LiveProcStep(p) ==
    \/ Loop(p)
    \/ LogTimeWindowed(p)
    \/ Sleep(p)
    \/ SleepReturn(p)
    \/ HandlerStep(p)

LiveNext ==
    \/ \E p \in Procs : LiveProcStep(p)
    \/ \E p \in Procs, sig \in EnvSignals : Deliver(p, sig)
    \/ TickCyclic

\* every process that can take a step takes one, and time passes
LiveSpec ==
    /\ InitDaemonized
    /\ [][LiveNext]_vars
    /\ \A p \in Procs : WF_vars(LiveProcStep(p))
    /\ WF_vars(TickCyclic)

(* ---------------------- the handler as a function ---------------------- *)

\* main routes only SIGHUP and SIGTERM to _signal_handler, so its default branch
\* is not reached in the runs of Spec.  The runs of HandlerSpec call the handler
\* in the daemonized process with any signal number up to MaxSigNum, as a
\* disposition set for that signal would.
MaxSigNum == 16

\* line 72: _signal_handler(sig) is entered
Invoke(p, sig) ==
    /\ Running(p)
    /\ ~InHandler(p)
    /\ sent < MaxSignals
    /\ sent' = sent + 1
    /\ hsig' = [hsig EXCEPT ![p] = sig]
    /\ ret' = [ret EXCEPT ![p] = pc[p]]
    /\ pc' = [pc EXCEPT ![p] = "handler"]
    /\ UNCHANGED <<argv0, app_name, ident, logOpen, status, pid, ctty, sidret, dirret,
                   fds, mask, cwd, handlers, wake, log, now>>

HandlerNext ==
    \/ \E p \in Procs : LoopStep(p) \/ HandlerStep(p)
    \/ \E p \in Procs, sig \in 1..MaxSigNum : Invoke(p, sig)
    \/ Tick

HandlerSpec == InitDaemonized /\ [][HandlerNext]_vars

(* ------------------------- reading the log ----------------------------- *)

IsTime(r) == r.msg = "time"
\* the timestamp records, in order of emission
TimeRecs == SelectSeq(log, IsTime)
\* the records process p wrote that carry message m
Wrote(p, m) == {i \in 1..Len(log) : log[i].proc = p /\ log[i].msg = m}
\* the priority and message of the last record in the log, if p wrote it
LastIs(p, pri, m) ==
    /\ Len(log) > 0
    /\ log[Len(log)].proc = p
    /\ log[Len(log)].pri = pri
    /\ log[Len(log)].msg = m
\* the statements after the parent-exit check of line 136
PastParentCheck ==
    {"close", "umask", "chdir", "signal_hup", "signal_term"} \cup LoopPcs
        \cup {"handler", "h_closelog", "h_exit", "h_return"}
\* process p is in the periodic loop, or in a handler that interrupted it
InLoop(p) == pc[p] \in LoopPcs \/ (InHandler(p) /\ ret[p] \in LoopPcs)

(* ------------------------------- claims -------------------------------- *)

\* C1: whenever a process's setsid() has reported an error (a negative result),
\* that process has logged a diagnostic and exited with status ERR_SETSID, without
\* going on to the parent check, the closes, chdir, the handlers or the loop.
C1_SetsidErrorExits ==
    \A p \in Procs :
        sidret[p] < 0 =>
            /\ pc[p] = "exited"
            /\ status[p] = ERR_SETSID
            /\ Wrote(p, "error") # {}

\* C2: once _signal_handler has been entered with SIGTERM in the child, which
\* can only interrupt the periodic loop, the child never returns to the loop (no
\* further sleep completes, no further timestamp is logged), and it eventually
\* has logged the shutdown record, closed the channel and exited with status OK.
C2_SigtermShutsDown ==
    /\ [][hsig["child"] = SIGTERM =>
            /\ ret["child"] \in LoopPcs
            /\ pc'["child"] \notin LoopPcs
            /\ TimeRecs' = TimeRecs]_vars
    /\ (hsig["child"] = SIGTERM) ~>
            /\ pc["child"] = "exited"
            /\ status["child"] = OK
            /\ ~logOpen["child"]
            /\ Wrote("child", "sigterm") # {}

\* C2 witness: SIGTERM interrupted the child's sleep and the child has exited.
C2_Witness ==
    /\ hsig["child"] = SIGTERM
    /\ ret["child"] = "sleeping"
    /\ pc["child"] = "exited"
    /\ status["child"] = OK

\* C3: a step the process takes inside _signal_handler(SIGHUP) changes nothing
\* observable: it writes no record, leaves the channel open, does not exit, and
\* on return the process is back at the statement it was interrupted in, with
\* the same sleep deadline, so that the timestamps come as without the signal.
C3_SighupChangesNothing ==
    [][\A p \in Procs :
        (hsig[p] = SIGHUP /\ pc'[p] # pc[p]) =>
            /\ log' = log
            /\ logOpen'[p] = logOpen[p]
            /\ pc'[p] # "exited"
            /\ wake'[p] = wake[p]
            /\ (pc[p] = "h_return" => pc'[p] = ret[p])]_vars

\* C4: whenever the child is in the periodic loop it has no controlling
\* terminal, its working directory is the root and its three standard
\* descriptors are closed, whatever the system calls returned.
C4_LoopIsDetached ==
    InLoop("child") =>
        /\ ~ctty["child"]
        /\ cwd["child"] = "/"
        /\ fds["child"] \cap StdFds = {}

\* C5: when fork succeeded, the parent goes no further than the parent-exit
\* check: it closes no stream, installs no handler, logs no timestamp, and if it
\* has exited its status is OK; only the child is past the check, and the two
\* processes are never both in the loop.
C5_ParentExitsOk ==
    pid["parent"] > 0 =>
        /\ pc["parent"] \notin PastParentCheck
        /\ pc["parent"] = "exited" => status["parent"] = OK
        /\ fds["parent"] = StdFds
        /\ handlers["parent"] = {}
        /\ Wrote("parent", "time") = {}
        /\ ~(InLoop("parent") /\ InLoop("child"))
        /\ pid["child"] = 0

\* C5 witness: the parent has exited with OK and the child is in the loop.
C5_Witness ==
    /\ pid["parent"] > 0
    /\ pc["parent"] = "exited"
    /\ status["parent"] = OK
    /\ pc["child"] = "sleeping"

\* C6: a process whose chdir("/") failed has logged an error record as its last
\* act and exited with status ERR_CHDIR; it has installed no handler and logged
\* no timestamp.
C6_ChdirFailureExits ==
    \A p \in Procs :
        dirret[p] # 0 =>
            /\ pc[p] = "exited"
            /\ status[p] = ERR_CHDIR
            /\ \E i \in Wrote(p, "error") :
                   log[i].pri = "LOG_ERR" /\ \A j \in i+1..Len(log) : log[j].proc # p
            /\ handlers[p] = {}
            /\ Wrote(p, "time") = {}

\* C6 witness: chdir failed in the child, which has exited.
C6_Witness ==
    /\ dirret["child"] = -1
    /\ pc["child"] = "exited"
    /\ cwd["child"] # "/"

\* C7: a process whose fork() failed goes from the test of line 122 straight to
\* exit: it logs an error record and exits with ERR_FORK, calls neither setsid
\* nor chdir, keeps its streams, umask and directory, installs no handler, logs
\* no timestamp, and there is no child.
C7_ForkFailureExits ==
    \A p \in Procs :
        pid[p] < 0 =>
            /\ pc[p] \in {"chk_fork", "exited", "killed"}
            /\ pc[p] = "exited" => (status[p] = ERR_FORK /\ LastIs(p, "LOG_ERR", "error"))
            /\ sidret[p] = 0
            /\ dirret[p] = 0
            /\ fds[p] = StdFds
            /\ mask[p] = {}
            /\ cwd[p] = "invocation"
            /\ handlers[p] = {}
            /\ Wrote(p, "time") = {}
            /\ pc["child"] = "none"

\* C7 witness: fork failed and the process has exited with ERR_FORK.
C7_Witness ==
    /\ pid["parent"] = -1
    /\ pc["parent"] = "exited"
    /\ status["parent"] = ERR_FORK

\* C8: any two consecutive timestamp records are at least LOG_INTERVAL apart in
\* recorded time (so the later is never earlier), signals or no signals.
C8_TimestampsSpaced ==
    \A i \in 1..Len(TimeRecs) - 1 :
        TimeRecs[i + 1].at - TimeRecs[i].at >= LOG_INTERVAL

\* the suffixes of s
Suffixes(s) == {SubSeq(s, i, Len(s)) : i \in 1..Len(s) + 1}
\* the part of s after its last "/", or all of s when it holds none
LastComponent(s) ==
    CHOOSE t \in Suffixes(s) :
        /\ \A i \in 1..Len(t) : t[i] # "/"
        /\ Len(t) = Len(s) \/ s[Len(s) - Len(t)] = "/"

C9_TagIsLastComponent ==
    \A p \in Procs :
        /\ app_name[p] # NULL => CStr(argv0, app_name[p]) = LastComponent(argv0)
        /\ logOpen[p] => (ident[p] # NULL /\ ident[p] = app_name[p])
        /\ \A i \in 1..Len(log) : log[i].tag = LastComponent(argv0)

C9_TagNeverChanges ==
    /\ argv0' = argv0
    /\ \A p \in Procs :
        /\ app_name[p] # NULL => app_name'[p] = app_name[p]
        /\ ident[p] # NULL => ident'[p] = ident[p]
        /\ (~logOpen[p] /\ logOpen'[p]) => (app_name'[p] # NULL /\ ident'[p] = app_name'[p])

\* C9: the tag is the part of argv[0] after its last "/", or all of argv[0] when
\* it holds no "/"; it is set before the channel is opened, every record carries
\* it, and neither app_name nor the channel's tag changes once set.
C9_LogTag == []C9_TagIsLastComponent /\ [][C9_TagNeverChanges]_vars

\* C9 witness: argv[0] is "/a", the channel is open under the tag "a", and the
\* child logs under it.
C9_Witness ==
    /\ argv0 = <<"/", "a">>
    /\ logOpen["child"]
    /\ CStr(argv0, ident["child"]) = <<"a">>
    /\ Wrote("child", "time") # {}

\* C10: no process ever exits with ERR_WTF; a child that has entered the loop
\* is not ended by a step of its own other than the exit of the SIGTERM handler:
\* if it has exited, it was in _signal_handler(SIGTERM), its status is OK and it
\* has logged the shutdown record.
C10_LoopNeverReturns ==
    /\ \A p \in Procs : status[p] # ERR_WTF
    /\ (SIGTERM \in handlers["child"] /\ pc["child"] = "exited") =>
            /\ hsig["child"] = SIGTERM
            /\ status["child"] = OK
            /\ Wrote("child", "sigterm") # {}
    /\ SIGTERM \in handlers["child"] => pc["child"] # "killed"

\* C10 witness: the loop has gone round twice and is at its test again.
C10_Witness ==
    /\ pc["child"] = "loop"
    /\ Len(TimeRecs) >= 2

\* C11: the steps of main have taken effect in their order: whatever a later
\* step has done, every earlier one has been done before it (openlog and the
\* startup record before fork, fork before setsid, setsid before the closes, the
\* closes before umask, umask before chdir, a successful chdir before the
\* handlers, SIGHUP's before SIGTERM's, both before the loop); so a process that is
\* in the loop or has logged a timestamp has both handlers installed.
C11_StepsInOrder ==
    /\ pc["child"] # "none" => (Wrote("parent", "Starting") # {} /\ pid["parent"] > 0)
    /\ \A p \in Procs :
        pc[p] # "none" =>
            /\ (p = "child" \/ pid[p] # 0 \/ \E i \in 1..Len(log) : log[i].proc = p)
                    => (app_name[p] # NULL /\ ident[p] = app_name[p])
            /\ sidret[p] # 0 => pc["child"] # "none"
            /\ fds[p] # StdFds => (sidret[p] # 0 /\ pid[p] = 0)
            /\ mask[p] # {} => fds[p] = {}
            /\ (cwd[p] = "/" \/ dirret[p] # 0) => mask[p] = UmaskArg
            /\ handlers[p] # {} => (cwd[p] = "/" /\ dirret[p] = 0)
            /\ SIGTERM \in handlers[p] => SIGHUP \in handlers[p]
            /\ (InLoop(p) \/ Wrote(p, "time") # {}) => {SIGHUP, SIGTERM} \subseteq handlers[p]

\* C11 witness: the child has logged a timestamp with both handlers installed and
\* is about to sleep.
C11_Witness ==
    /\ pc["child"] = "sleep"
    /\ Wrote("child", "time") # {}
    /\ handlers["child"] = {SIGHUP, SIGTERM}
    /\ cwd["child"] = "/"

\* C12: after a successful fork each of the two processes calls setsid before it
\* comes to the parent-exit check (and does come to call it unless a signal ends
\* it first); the parent, once exited, has called it and has status OK whatever
\* the call returned.
C12_BothCallSetsid ==
    /\ [](\A p \in Procs :
            /\ pc[p] \in {"chk_parent"} \cup PastParentCheck => sidret[p] # 0
            /\ (pid["parent"] > 0 /\ pc[p] = "exited") => sidret[p] # 0
            /\ (pid["parent"] > 0 /\ pc["parent"] = "exited") => status["parent"] = OK)
    /\ \A p \in Procs :
            (pc["child"] # "none") ~> (sidret[p] # 0 \/ pc[p] = "killed")

\* C12 witness: the parent's setsid failed, the child's succeeded, and the parent
\* has exited with OK.
C12_Witness ==
    /\ pid["parent"] > 0
    /\ sidret["parent"] = -1
    /\ sidret["child"] > 0
    /\ pc["parent"] = "exited"
    /\ status["parent"] = OK

\* the statement process p is at, or was interrupted at by the running handler
Pos(p) == IF InHandler(p) THEN ret[p] ELSE pc[p]
\* the order of the statements of the loop of _log_time
LoopOrder ==
    {<<"loop", "log_time">>, <<"log_time", "sleep">>, <<"sleep", "sleeping">>,
     <<"sleeping", "loop">>}
\* the child logs a timestamp
ChildLogsTime == Pos("child") = "log_time" /\ Pos("child")' = "sleep"

C14_ShutdownOrder ==
    /\ [](\A p \in Procs :
            /\ hsig[p] = SIGTERM => pc[p] \in {"handler", "h_closelog", "h_exit", "exited"}
            /\ (hsig[p] = SIGTERM /\ pc[p] = "handler") =>
                    (logOpen[p] /\ Wrote(p, "sigterm") = {})
            /\ pc[p] = "h_closelog" =>
                    (hsig[p] = SIGTERM /\ logOpen[p] /\ LastIs(p, "LOG_INFO", "sigterm"))
            /\ pc[p] = "h_exit" =>
                    (hsig[p] = SIGTERM /\ ~logOpen[p] /\ LastIs(p, "LOG_INFO", "sigterm"))
            /\ (hsig[p] = SIGTERM /\ pc[p] = "exited") =>
                    (status[p] = OK /\ ~logOpen[p] /\ LastIs(p, "LOG_INFO", "sigterm"))
            /\ Cardinality(Wrote(p, "sigterm")) <= 1
            /\ (ident[p] # NULL /\ ~logOpen[p]) => pc[p] \in {"h_exit", "exited"})
    /\ [][\A p \in Procs :
            /\ (Len(log') > Len(log) /\ log'[Len(log')].proc = p) => logOpen[p]
            /\ (ident[p] # NULL /\ ~logOpen[p]) => (~logOpen'[p] /\ log' = log)]_vars

\* C14 witness: the child has logged the shutdown record and closed the channel,
\* and is about to exit.
C14_Witness ==
    /\ pc["child"] = "h_exit"
    /\ ~logOpen["child"]
    /\ LastIs("child", "LOG_INFO", "sigterm")

\* a signal number that is neither SIGHUP nor SIGTERM (0 stands for no signal)
OtherSignal(sig) == sig \notin {0, SIGHUP, SIGTERM}

\* C15: _signal_handler called with a number other than SIGHUP and SIGTERM
\* writes exactly one record, the LOG_INFO record "received unhandled signal.",
\* and returns: the process has not exited, its channel is still open, and it is
\* back in the loop at the statement it was interrupted in (at the loop test, if
\* it was interrupted in sleep).
C15_UnhandledSignal ==
    /\ [](\A p \in Procs :
            OtherSignal(hsig[p]) => (pc[p] \in {"handler", "h_return"} /\ logOpen[p]))
    /\ [][\A p \in Procs :
            (OtherSignal(hsig[p]) /\ pc'[p] # pc[p]) =>
                /\ pc[p] = "handler" =>
                        /\ log' = Append(log, Rec(p, "LOG_INFO", "unhandled", 0))
                        /\ pc'[p] = "h_return"
                /\ pc[p] = "h_return" =>
                        /\ log' = log
                        /\ hsig'[p] = 0
                        /\ pc'[p] \in LoopPcs
                        /\ pc'[p] = IF ret[p] = "sleeping" THEN "loop" ELSE ret[p]
                /\ logOpen'[p]
                /\ status'[p] = NoStatus]_vars

\* C15 witness: the child has logged an unhandled signal, its handler has
\* returned, and the loop has since logged a timestamp.
C15_Witness ==
    /\ Wrote("child", "unhandled") # {}
    /\ hsig["child"] = 0
    /\ logOpen["child"]
    /\ pc["child"] = "sleep"
    /\ LastIs("child", "LOG_INFO", "time")

\* the shutdown records in the log
ShutdownRecs == {i \in 1..Len(log) : log[i].msg = "sigterm"}

\* C16: the log holds at most one shutdown record, written by the child in
\* _signal_handler(SIGTERM) with the SIGTERM handler installed; the handler runs
\* in no process that has not installed it, so never in the parent.  A signal
\* delivered to a process without the SIGTERM handler writes no record and sets
\* no exit status: it ends the process, or is a SIGHUP taken by the handler.
C16_ShutdownOnlyByChild ==
    /\ [](/\ Cardinality(ShutdownRecs) <= 1
          /\ Wrote("parent", "sigterm") = {}
          /\ Wrote("child", "sigterm") # {} =>
                (SIGTERM \in handlers["child"] /\ hsig["child"] = SIGTERM)
          /\ \A p \in Procs :
                /\ hsig[p] # 0 => (p = "child" /\ hsig[p] \in handlers[p])
                /\ pc[p] = "killed" =>
                        (status[p] = NoStatus /\ Wrote(p, "sigterm") = {}
                            /\ SIGTERM \notin handlers[p]))
    /\ [][\A p \in Procs :
            (sent' > sent /\ pc'[p] # pc[p] /\ SIGTERM \notin handlers[p]) =>
                /\ log' = log
                /\ status' = status
                /\ pc'[p] = "killed" \/ hsig'[p] = SIGHUP]_vars

\* C16 witness: SIGTERM reached the child between the two signal() calls, with
\* only the SIGHUP handler installed, and ended it without a record.
C16_Witness ==
    /\ pc["child"] = "killed"
    /\ handlers["child"] = {SIGHUP}
    /\ ShutdownRecs = {}
    /\ status["child"] = NoStatus

====
